---- MODULE Spec2Model ----
(***************************************************************************)
(* A model of open_all_htmls.py: resolve a directory, validate it, list    *)
(* it, keep the regular files whose lowercased name ends in ".html", and   *)
(* ask the default browser to open each of them.                           *)
(*                                                                         *)
(* Strings are sequences of one-character strings, so that lower(),        *)
(* endswith(), os.path.join, os.path.normpath and the 'file://' + path     *)
(* concatenation are computed character by character.  The file system is  *)
(* a set of nodes; it belongs to the environment and may change between    *)
(* any two system calls of the program.                                    *)
(*                                                                         *)
(* Environment assumptions: POSIX paths; the process's own working         *)
(* directory is not removed while it runs; standard output accepts every   *)
(* message.                                                                *)
(***************************************************************************)
EXTENDS Integers, Sequences, FiniteSets, TLC

VARIABLES
    argv,          \* sys.argv: <<script>> or <<script, path>>
    target_dir,    \* the argument of open_all_htmls: None or a string
    cwd,           \* the resolved directory (the local variable cwd)
    files,         \* result of os.listdir(cwd)
    html_files,    \* the filtered list, built entry by entry
    fi,            \* position of the list comprehension in files
    li,            \* position of the for loop in html_files
    pc,            \* control point of the process
    out,           \* what has been printed, in order
    exit_status,   \* <<>> while running, <<code>> once the process has ended
    fs,            \* the file system: the set of nodes [path, kind]
    unreadable,    \* directories whose listing is denied to the process
    calls,         \* system / library calls made so far, with their results
    envSteps,      \* number of changes the environment has made
    fsAtList       \* the file system as it was when os.listdir answered

vars == <<argv, target_dir, cwd, files, html_files, fi, li, pc, out,
          exit_status, fs, unreadable, calls, envSteps, fsAtList>>

----------------------------------------------------------------------------
(* Bounds of the model *)

MaxEntries == 3

MaxEnvSteps == 1

----------------------------------------------------------------------------
(* Strings *)

UpperCase ==
    <<"A","B","C","D","E","F","G","H","I","J","K","L","M",
      "N","O","P","Q","R","S","T","U","V","W","X","Y","Z">>

LowerCase ==
    <<"a","b","c","d","e","f","g","h","i","j","k","l","m",
      "n","o","p","q","r","s","t","u","v","w","x","y","z">>

\* str.lower() on one character
LowerChar(c) ==
    IF \E k \in DOMAIN UpperCase : UpperCase[k] = c
    THEN LowerCase[CHOOSE k \in DOMAIN UpperCase : UpperCase[k] = c]
    ELSE c

\* str.lower()
Lower(s) == [k \in DOMAIN s |-> LowerChar(s[k])]

\* str.endswith(suffix)
EndsWith(s, suffix) ==
    /\ Len(s) >= Len(suffix)
    /\ SubSeq(s, Len(s) - Len(suffix) + 1, Len(s)) = suffix

\* str.startswith(prefix)
StartsWith(s, prefix) ==
    /\ Len(s) >= Len(prefix)
    /\ SubSeq(s, 1, Len(prefix)) = prefix

\* the literal '.html'
DotHtml == <<".", "h", "t", "m", "l">>

\* the literal 'file://'
FileScheme == <<"f", "i", "l", "e", ":", "/", "/">>

\* None, and a string value, as the optional argument
None == [some |-> FALSE, val |-> <<>>]

Some(s) == [some |-> TRUE, val |-> s]

----------------------------------------------------------------------------
(* posixpath *)

\* str.split('/'): the components between the slashes, empty ones included
Split(s) ==
    LET seps == {k \in DOMAIN s : s[k] = "/"}
        \* position of the j-th slash; 0 before the first, Len(s)+1 after the last
        cut(j) == IF j = 0 THEN 0
                  ELSE IF j > Cardinality(seps) THEN Len(s) + 1
                  ELSE CHOOSE p \in seps : Cardinality({q \in seps : q <= p}) = j
    IN  [j \in 1..(Cardinality(seps) + 1) |-> SubSeq(s, cut(j - 1) + 1, cut(j) - 1)]

\* '/'.join(comps)
JoinComps(comps) ==
    LET joined[k \in 0..Len(comps)] ==
            IF k = 0 THEN <<>>
            ELSE IF k = 1 THEN comps[1]
            ELSE joined[k - 1] \o <<"/">> \o comps[k]
    IN  joined[Len(comps)]

DotDot == <<".", ".">>

\* the loop of posixpath.normpath over the components: new_comps after the
\* first k of them
NormComps(comps, initial_slashes) ==
    LET stack[k \in 0..Len(comps)] ==
            IF k = 0 THEN <<>>
            ELSE
                LET comp == comps[k]
                    new_comps == stack[k - 1]
                IN  IF comp = <<>> \/ comp = <<".">>
                    THEN new_comps
                    ELSE IF \/ comp # DotDot
                            \/ (initial_slashes = 0 /\ new_comps = <<>>)
                            \/ (new_comps # <<>> /\ new_comps[Len(new_comps)] = DotDot)
                    THEN Append(new_comps, comp)
                    ELSE IF new_comps # <<>>
                    THEN SubSeq(new_comps, 1, Len(new_comps) - 1)
                    ELSE new_comps
    IN  stack[Len(comps)]

\* posixpath.normpath
normpath(path) ==
    IF path = <<>> THEN <<".">>
    ELSE
        LET initial_slashes ==
                IF ~StartsWith(path, <<"/">>) THEN 0
                ELSE IF StartsWith(path, <<"/", "/">>)
                        /\ ~StartsWith(path, <<"/", "/", "/">>) THEN 2
                ELSE 1
            body == JoinComps(NormComps(Split(path), initial_slashes))
            res == [k \in 1..initial_slashes |-> "/"] \o body
        IN  IF res = <<>> THEN <<".">> ELSE res

\* posixpath.isabs
isabs(path) == StartsWith(path, <<"/">>)

\* posixpath.join(a, b)
join(a, b) ==
    IF StartsWith(b, <<"/">>) THEN b
    ELSE IF a = <<>> \/ EndsWith(a, <<"/">>) THEN a \o b
    ELSE a \o <<"/">> \o b

\* os.getcwd(): the working directory of the process
getcwd == <<"/", "w">>

\* posixpath.abspath
abspath(path) ==
    normpath(IF isabs(path) THEN path ELSE join(getcwd, path))

----------------------------------------------------------------------------
(* The file system *)

W == <<"/", "w">>

D == <<"/", "w", "/", "d">>

\* a node of the tree: the directory it is in, its name there, its kind
Node(dir, name, kind) == [dir |-> dir, name |-> name, kind |-> kind]

\* the absolute path of a node
PathOf(n) == join(n.dir, n.name)

\* nodes that are always there when the process starts
Skeleton == {Node(<<"/">>, <<"w">>, "dir"), Node(W, <<"d">>, "dir")}

XDir == join(D, <<"x", ".", "h", "t", "m", "l">>)

\* nodes that may or may not be there
Universe ==
    { Node(W, <<"r", ".", "h", "t", "m", "l">>, "file"),
      Node(D, <<"a", ".", "H", "T", "M", "L">>, "file"),
      Node(D, <<"b", ".", "h", "t", "m", "l">>, "file"),
      Node(D, <<"c", ".", "t", "x", "t">>, "file"),
      Node(D, <<"s", " ", "%", "#", "?", ".", "h", "t", "m", "l">>, "file"),
      Node(D, <<"x", ".", "h", "t", "m", "l">>, "dir"),
      Node(XDir, <<"n", ".", "h", "t", "m", "l">>, "file") }

\* every node but the skeleton's has its parent directory in the tree
WellFormed(fsys) ==
    \A n \in fsys : n \in Skeleton
                    \/ \E d \in fsys : d.kind = "dir" /\ PathOf(d) = n.dir

NodeKind(fsys, path) ==
    IF \E n \in fsys : PathOf(n) = path
    THEN (CHOOSE n \in fsys : PathOf(n) = path).kind
    ELSE "absent"

\* os.path.isdir
isdir(fsys, path) == NodeKind(fsys, path) = "dir"

\* os.path.isfile
isfile(fsys, path) == NodeKind(fsys, path) = "file"

\* the names of the immediate entries of a directory
Children(fsys, path) ==
    {n.name : n \in {m \in fsys : m.dir = path}}

\* all the orders in which a set of names can be returned
Orderings(S) ==
    {q \in [1..Cardinality(S) -> S] : \A a, b \in DOMAIN q : a # b => q[a] # q[b]}

\* the error with which os.listdir fails, or "ok"
ListdirErrno(fsys, unr, path) ==
    IF NodeKind(fsys, path) = "absent" THEN "ENOENT"
    ELSE IF NodeKind(fsys, path) = "file" THEN "ENOTDIR"
    ELSE IF path \in unr THEN "EACCES"
    ELSE "ok"

\* the node at path and everything below it
Subtree(fsys, path) ==
    {n \in fsys : PathOf(n) = path \/ StartsWith(PathOf(n), path \o <<"/">>)}

----------------------------------------------------------------------------
(* Command lines *)

Script == <<"o", ".", "p", "y">>

ArgChoices ==
    { <<"d", "/", ".", ".", "/", "d", "/", ".">>,
      <<"/", "n", "x">>,
      join(W, <<"r", ".", "h", "t", "m", "l">>) }

\* the names and directories a run of the model can meet
KnownNames == {n.name : n \in Universe \cup Skeleton}

KnownDirs == {getcwd} \cup {abspath(a) : a \in ArgChoices}

\* os.path.abspath, tabulated once over the paths a run of the model can
\* hand to it
AbsPathTable ==
    [p \in ArgChoices \cup {join(d, f) : d \in KnownDirs, f \in KnownNames}
        |-> abspath(p)]

----------------------------------------------------------------------------
(* Output and call records *)

Msg(text, arg, n) == [msg |-> text, arg |-> arg, n |-> n]

Call(op, arg, ret) == [op |-> op, arg |-> arg, ret |-> ret]

Exit(code) == <<code>>

----------------------------------------------------------------------------
(* Initial states *)

Init ==
    /\ \E extra \in SUBSET Universe :
          /\ Cardinality(extra) <= MaxEntries
          /\ WellFormed(Skeleton \cup extra)
          /\ fs = Skeleton \cup extra
    /\ argv \in {<<Script>>} \cup {<<Script, a>> : a \in ArgChoices}
    /\ unreadable = {}
    /\ target_dir = None
    /\ cwd = <<>>
    /\ files = <<>>
    /\ html_files = <<>>
    /\ fi = 1
    /\ li = 1
    /\ pc = "main"
    /\ out = <<>>
    /\ exit_status = <<>>
    /\ calls = <<>>
    /\ envSteps = 0
    /\ fsAtList = fs

----------------------------------------------------------------------------
(* The program *)

\* the __main__ block: pick the argument off the command line
Main ==
    /\ pc = "main"
    /\ target_dir' = IF Len(argv) > 1 THEN Some(argv[2]) ELSE None
    /\ pc' = "resolve"
    /\ UNCHANGED <<argv, cwd, files, html_files, fi, li, out, exit_status,
                   fs, unreadable, calls, envSteps, fsAtList>>

\* the argument used as it was given, not made absolute
ResolveDirRaw(t) == IF t = None THEN getcwd ELSE t.val

\* step 1: the directory the run works on
ResolveDir(t) == IF t = None THEN getcwd ELSE AbsPathTable[t.val]

Resolve ==
    /\ pc = "resolve"
    /\ cwd' = ResolveDir(target_dir)
    /\ pc' = "validate"
    /\ UNCHANGED <<argv, target_dir, files, html_files, fi, li, out,
                   exit_status, fs, unreadable, calls, envSteps, fsAtList>>

\* the validation failure reported but the run counted a success
NotFoundExitZero == Exit(0)

\* what the process does when the validation fails
NotFoundExit == Exit(1)

\* step 2: os.path.isdir(cwd), the error message and sys.exit(1), or the banner
Validate ==
    /\ pc = "validate"
    /\ LET ok == isdir(fs, cwd) IN
        /\ calls' = Append(calls,
                        Call("isdir", cwd, IF ok THEN "True" ELSE "False"))
        /\ IF ~ok
           THEN /\ out' = Append(out, Msg("Error: Directory not found or is not a directory", cwd, 0))
                /\ exit_status' = NotFoundExit
                /\ pc' = "done"
           ELSE /\ out' = out \o <<Msg("--- HTML File Opener ---", <<>>, 0),
                                   Msg("Searching for HTML files in", cwd, 0)>>
                /\ exit_status' = exit_status
                /\ pc' = "list"
    /\ UNCHANGED <<argv, target_dir, cwd, files, html_files, fi, li,
                   fs, unreadable, envSteps, fsAtList>>

\* the directory handed to os.listdir
ListTarget == cwd

\* the permission error reported but the run counted a success
PermissionExitZero == Exit(0)

\* what the process does on PermissionError
PermissionExit == Exit(1)

\* step 3: os.listdir(cwd); PermissionError is caught, any other OSError is not
List ==
    /\ pc = "list"
    /\ LET errno == ListdirErrno(fs, unreadable, ListTarget) IN
        /\ calls' = Append(calls, Call("listdir", ListTarget, errno))
        /\ fsAtList' = fs
        /\ IF errno = "ok"
           THEN /\ files' \in Orderings(Children(fs, ListTarget))
                /\ pc' = "filter"
                /\ UNCHANGED <<out, exit_status>>
           ELSE IF errno = "EACCES"
           THEN /\ out' = Append(out, Msg("Error: Permission denied to access directory", cwd, 0))
                /\ exit_status' = PermissionExit
                /\ pc' = "done"
                /\ UNCHANGED files
           ELSE /\ out' = Append(out, Msg("Traceback (most recent call last)", cwd, 0))
                /\ exit_status' = Exit(1)
                /\ pc' = "done"
                /\ UNCHANGED files
    /\ UNCHANGED <<argv, target_dir, cwd, html_files, fi, li,
                   fs, unreadable, envSteps>>

\* the suffix compared without lowercasing the name
NameMatchesCaseSensitive(f) == EndsWith(f, DotHtml)

\* the first condition of the list comprehension
NameMatches(f) == EndsWith(Lower(f), DotHtml)

\* the os.path.isfile test left out
IsRegularFileAny(fsys, dir, f) == TRUE

\* the second condition of the list comprehension
IsRegularFile(fsys, dir, f) == isfile(fsys, join(dir, f))

\* the retained name put in front of the list
RetainFront(kept, f, keep) == IF keep THEN <<f>> \o kept ELSE kept

\* the list with one more element, or unchanged
Retain(kept, f, keep) == IF keep THEN Append(kept, f) ELSE kept

\* step 4: one element of the list comprehension
FilterStep ==
    /\ pc = "filter"
    /\ fi <= Len(files)
    /\ LET f == files[fi]
           named == NameMatches(f)
           regular == IsRegularFile(fs, cwd, f)
       IN  /\ html_files' = Retain(html_files, f, named /\ regular)
           /\ calls' = IF named
                       THEN Append(calls, Call("isfile", join(cwd, f),
                                        IF regular THEN "True" ELSE "False"))
                       ELSE calls
    /\ fi' = fi + 1
    /\ UNCHANGED <<argv, target_dir, cwd, files, li, pc, out, exit_status,
                   fs, unreadable, envSteps, fsAtList>>

\* the status of a run that returns from open_all_htmls
ReturnExit == Exit(0)

\* the end of the comprehension: nothing found and return, or the count
CheckEmpty ==
    /\ pc = "filter"
    /\ fi > Len(files)
    /\ IF html_files = <<>>
       THEN /\ out' = Append(out, Msg("No HTML files found in the current directory.", <<>>, 0))
            /\ exit_status' = ReturnExit
            /\ pc' = "done"
       ELSE /\ out' = Append(out, Msg("Found N HTML file(s). Opening them now...",
                                      <<>>, Len(html_files)))
            /\ exit_status' = exit_status
            /\ pc' = "launch"
    /\ UNCHANGED <<argv, target_dir, cwd, files, html_files, fi, li,
                   fs, unreadable, calls, envSteps, fsAtList>>

\* 'file://' + os.path.abspath(os.path.join(cwd, filename))
FileUri(dir, filename) == FileScheme \o AbsPathTable[join(dir, filename)]

\* what webbrowser.open_new_tab can return
LaunchOutcomes == {"True", "False"}

\* the loop advancing by two
AfterLaunchSkip(k, ret) == [pc |-> "launch", li |-> k + 2, exit |-> exit_status]

\* the run given up with status 1 when a launch request reports failure
AfterLaunchAbort(k, ret) ==
    IF ret = "False"
    THEN [pc |-> "done", li |-> k, exit |-> Exit(1)]
    ELSE [pc |-> "launch", li |-> k + 1, exit |-> exit_status]

\* where the loop stands after a launch request returned: its result is not read
AfterLaunch(k, ret) == [pc |-> "launch", li |-> k + 1, exit |-> exit_status]

\* step 5: one iteration of the loop; the result of the request is dropped
LaunchStep ==
    /\ pc = "launch"
    /\ li <= Len(html_files)
    /\ LET filename == html_files[li] IN
       \E ret \in LaunchOutcomes :
          /\ out' = Append(out, Msg("  -> Opening", filename, 0))
          /\ calls' = Append(calls, Call("open_new_tab", FileUri(cwd, filename), ret))
          /\ pc' = AfterLaunch(li, ret).pc
          /\ li' = AfterLaunch(li, ret).li
          /\ exit_status' = AfterLaunch(li, ret).exit
    /\ UNCHANGED <<argv, target_dir, cwd, files, html_files, fi,
                   fs, unreadable, envSteps, fsAtList>>

\* the two closing messages and the return to __main__
Finish ==
    /\ pc = "launch"
    /\ li > Len(html_files)
    /\ out' = out \o <<Msg("--- Finished ---", <<>>, 0),
                       Msg("All N files have been sent to the default browser.",
                           <<>>, Len(html_files))>>
    /\ exit_status' = ReturnExit
    /\ pc' = "done"
    /\ UNCHANGED <<argv, target_dir, cwd, files, html_files, fi, li,
                   fs, unreadable, calls, envSteps, fsAtList>>

Program ==
    \/ Main
    \/ Resolve
    \/ Validate
    \/ List
    \/ FilterStep
    \/ CheckEmpty
    \/ LaunchStep
    \/ Finish

----------------------------------------------------------------------------
(* The environment, between two file-system calls of the program *)

EnvActive ==
    /\ envSteps < MaxEnvSteps
    /\ pc \in {"validate", "list", "filter"}

\* another process removes a file or a whole directory
EnvRemove ==
    /\ EnvActive
    /\ \E n \in fs :
          /\ PathOf(n) # getcwd
          /\ fs' = fs \ Subtree(fs, PathOf(n))
    /\ envSteps' = envSteps + 1
    /\ UNCHANGED <<argv, target_dir, cwd, files, html_files, fi, li, pc, out,
                   exit_status, unreadable, calls, fsAtList>>

\* another process changes the read permission of a directory
EnvChmod ==
    /\ EnvActive
    /\ \E d \in {W, D} :
          unreadable' = IF d \in unreadable THEN unreadable \ {d}
                        ELSE unreadable \cup {d}
    /\ envSteps' = envSteps + 1
    /\ UNCHANGED <<argv, target_dir, cwd, files, html_files, fi, li, pc, out,
                   exit_status, fs, calls, fsAtList>>

Next ==
    \/ Program
    \/ EnvRemove
    \/ EnvChmod

Spec == Init /\ [][Next]_vars

\* the interpreter runs the program to its end
LiveSpec == Init /\ [][Next]_vars /\ WF_vars(Program)

----------------------------------------------------------------------------
(* Observations used by the properties *)

Range(q) == {q[k] : k \in DOMAIN q}

CallsOf(op) == SelectSeq(calls, LAMBDA c : c.op = op)

\* the launch requests issued so far, in order
Launches == CallsOf("open_new_tab")

\* the attempts to list a directory made so far
ListCalls == CallsOf("listdir")

Done == pc = "done"

\* the process ended by returning or by an exit, with this status
ExitedWith(code) == Done /\ exit_status = <<code>>

LastOut == out[Len(out)]

\* the validation looked at the path and found no directory there
ValidationFailed == calls # <<>> /\ calls[1].op = "isdir" /\ calls[1].ret = "False"

\* the listing was attempted and answered with this result
ListingAnswered(r) == ListCalls # <<>> /\ ListCalls[1].ret = r

\* the list comprehension has gone over the whole listing
FilterDone == ListingAnswered("ok") /\ pc \in {"launch", "done"}

\* position of a name in a sequence of distinct names
Pos(q, x) == CHOOSE k \in DOMAIN q : q[k] = x

\* what the filter is to keep of a directory: the names of its immediate
\* entries that are regular files and end in .html whatever the case
HtmlFilesOf(fsys, dir) ==
    { n.name :
        n \in { m \in fsys : /\ m.kind = "file"
                             /\ m.dir = dir
                             /\ EndsWith(Lower(m.name), DotHtml) } }

\* the launch request is for this filename
RequestFor(c, name) == EndsWith(c.arg, <<"/">> \o name)

AHtml == <<"a", ".", "H", "T", "M", "L">>

BHtml == <<"b", ".", "h", "t", "m", "l">>

XHtml == <<"x", ".", "h", "t", "m", "l">>

----------------------------------------------------------------------------
(* C1: once the filter has gone over a listing, the names it kept are       *)
(* exactly the immediate entries of the directory that are regular files    *)
(* and whose lowercased name ends in '.html'.  When the directory changed   *)
(* while it was being filtered, the kept names lie between what qualifies   *)
(* now and what qualified when the listing was taken.                       *)
C1_FilterExact ==
    FilterDone =>
        /\ HtmlFilesOf(fs, cwd) \subseteq Range(html_files)
        /\ Range(html_files) \subseteq HtmlFilesOf(fsAtList, cwd)
        /\ (fs = fsAtList => Range(html_files) = HtmlFilesOf(fs, cwd))
        /\ Range(html_files) \subseteq Range(files)

\* a.HTML is kept; the subdirectory x.html, listed, and the file n.html
\* inside it are not
C1_Witness ==
    /\ FilterDone
    /\ fs = fsAtList
    /\ cwd = D
    /\ Range(html_files) = {AHtml}
    /\ XHtml \in Range(files)
    /\ isfile(fs, join(XDir, <<"n", ".", "h", "t", "m", "l">>))

(* C2: a run whose filter kept N >= 1 names has, when it ends, issued       *)
(* exactly N launch requests, the k-th of them for the k-th kept name, the  *)
(* kept names being pairwise distinct.                                      *)
C2_OneRequestPerFile ==
    (Done /\ FilterDone /\ html_files # <<>>) =>
        /\ Len(Launches) = Len(html_files)
        /\ \A k \in DOMAIN Launches : RequestFor(Launches[k], html_files[k])
        /\ \A a, b \in DOMAIN html_files : a # b => html_files[a] # html_files[b]
        /\ \A k \in DOMAIN Launches :
              \E f \in HtmlFilesOf(fsAtList, cwd) : RequestFor(Launches[k], f)

\* two names kept, a third entry rejected, two requests issued
C2_Witness ==
    /\ Done
    /\ Len(html_files) = 2
    /\ Len(files) = 3
    /\ Len(Launches) = 2

(* C3: when the validation finds that the resolved path is no existing      *)
(* directory, the run prints the error naming that path and nothing else,   *)
(* ends with status 1, never lists and never launches.                      *)
C3_NotADirectory ==
    (Done /\ ValidationFailed) =>
        /\ out = <<Msg("Error: Directory not found or is not a directory", cwd, 0)>>
        /\ exit_status = <<1>>
        /\ ListCalls = <<>>
        /\ Launches = <<>>

\* the path names an existing regular file
C3_Witness ==
    /\ Done
    /\ ValidationFailed
    /\ isfile(fs, cwd)
    /\ exit_status = <<1>>

(* C4: when the listing of the validated directory is denied, the run       *)
(* prints the permission error naming the directory, ends with status 1,    *)
(* has asked for the listing once only and has launched nothing.            *)
C4_PermissionDenied ==
    (Done /\ ListingAnswered("EACCES")) =>
        /\ LastOut = Msg("Error: Permission denied to access directory", cwd, 0)
        /\ exit_status = <<1>>
        /\ Len(ListCalls) = 1
        /\ Launches = <<>>

C4_Witness ==
    /\ Done
    /\ ListingAnswered("EACCES")
    /\ isdir(fs, cwd)
    /\ cwd \in unreadable

(* C5: when the listing succeeds on a directory none of whose entries is a  *)
(* regular file named *.html, the run prints the 'no files found' message,  *)
(* launches nothing and ends with status 0.                                 *)
C5_NothingFound ==
    (Done /\ ListingAnswered("ok") /\ HtmlFilesOf(fsAtList, cwd) = {}) =>
        /\ LastOut = Msg("No HTML files found in the current directory.", <<>>, 0)
        /\ Launches = <<>>
        /\ exit_status = <<0>>

\* the directory holds only a subdirectory named x.html and other entries
C5_Witness ==
    /\ Done
    /\ ListingAnswered("ok")
    /\ HtmlFilesOf(fsAtList, cwd) = {}
    /\ XHtml \in Range(files)
    /\ Len(files) >= 2

(* C6, as claimed: every run ends with status 0 or 1, and with status 1     *)
(* exactly when the directory was not found or the listing was denied; a    *)
(* run whose directory changes between validation and listing ends with 0.  *)
C6_Original ==
    Done =>
        /\ exit_status \in {<<0>>, <<1>>}
        /\ exit_status = <<1>> <=> (ValidationFailed \/ ListingAnswered("EACCES"))

(* C6, amended: every run ends with status 0 or 1, and with status 1        *)
(* exactly when the validation fails or os.listdir raises: PermissionError, *)
(* which is reported, or another OSError (the directory gone or replaced    *)
(* since the validation), which is not caught.  A failed launch request     *)
(* leaves the status at 0.                                                  *)
C6_ExitStatus ==
    Done =>
        /\ exit_status \in {<<0>>, <<1>>}
        /\ exit_status = <<1>> <=>
              \/ ValidationFailed
              \/ (ListCalls # <<>> /\ ListCalls[1].ret # "ok")

\* the directory was there at the validation and gone at the listing
C6_Witness ==
    /\ Done
    /\ ~ValidationFailed
    /\ ListingAnswered("ENOENT")
    /\ exit_status = <<1>>

----------------------------------------------------------------------------
(* URI syntax (RFC 3986, RFC 8089), for C7 *)

Digits == {"0", "1", "2", "3", "4", "5", "6", "7", "8", "9"}

HexDigits == Digits \cup {"A", "B", "C", "D", "E", "F", "a", "b", "c", "d", "e", "f"}

Unreserved == Range(UpperCase) \cup Range(LowerCase) \cup Digits \cup {"-", ".", "_", "~"}

SubDelims == {"!", "$", "&", "'", "(", ")", "*", "+", ",", ";", "="}

\* what may stand unescaped in the path of a URI
PathChars == Unreserved \cup SubDelims \cup {":", "@", "/"}

\* file:// with an empty authority and an absolute path, every character of
\* which is a path character or the start of a percent-escape
WellFormedFileUri(u) ==
    /\ StartsWith(u, FileScheme)
    /\ LET path == SubSeq(u, Len(FileScheme) + 1, Len(u)) IN
        /\ StartsWith(path, <<"/">>)
        /\ \A k \in DOMAIN path :
              \/ path[k] \in PathChars
              \/ /\ path[k] = "%"
                 /\ k + 2 <= Len(path)
                 /\ path[k + 1] \in HexDigits
                 /\ path[k + 2] \in HexDigits

\* the string handed to a launch request is 'file://' followed by the
\* resolved directory, a slash and the filename
UriIsSchemePlusPath ==
    \A k \in DOMAIN Launches :
        /\ k <= Len(html_files)
        /\ Launches[k].arg = FileScheme \o cwd \o <<"/">> \o html_files[k]

(* C7: for every retained filename the string passed to the launch request  *)
(* is 'file://' followed by the absolute path of the file, and that string  *)
(* is a well-formed file:// URI, also when the name contains a space, '#',  *)
(* '?' or '%'.                                                              *)
C7_WellFormedUri ==
    /\ UriIsSchemePlusPath
    /\ \A k \in DOMAIN Launches : WellFormedFileUri(Launches[k].arg)

(* C8: the kept names stand in the order in which the listing returned      *)
(* them, and the launch requests are issued one per loop step in the order  *)
(* of the kept names: a request for a precedes a request for b whenever a   *)
(* precedes b in the listing.                                               *)
C8_ListingOrder ==
    /\ \A a, b \in DOMAIN html_files :
          a < b => Pos(files, html_files[a]) < Pos(files, html_files[b])
    /\ \A k \in DOMAIN Launches :
          k <= Len(html_files) /\ RequestFor(Launches[k], html_files[k])
    /\ pc = "launch" => Len(Launches) = li - 1

\* the listing returned b.html before a.HTML, and so were they launched
C8_Witness ==
    /\ Done
    /\ Len(Launches) = 2
    /\ {AHtml, BHtml} \subseteq Range(files)
    /\ Pos(files, BHtml) < Pos(files, AHtml)
    /\ RequestFor(Launches[1], BHtml)
    /\ RequestFor(Launches[2], AHtml)

(* C9: without an argument the resolved directory is the working directory  *)
(* of the process; with one it is the argument made absolute and            *)
(* normalized; and that one directory is what the validation tests, what    *)
(* is listed, and what every tested and launched path starts with.          *)
C9_ResolvedDirectory ==
    pc \notin {"main", "resolve"} =>
        /\ Len(argv) = 1 => cwd = getcwd
        /\ Len(argv) > 1 => cwd = abspath(argv[2])
        /\ isabs(cwd) /\ normpath(cwd) = cwd
        /\ \A k \in DOMAIN calls :
              /\ calls[k].op \in {"isdir", "listdir"} => calls[k].arg = cwd
              /\ calls[k].op = "isfile" =>
                    \E f \in Range(files) : calls[k].arg = cwd \o <<"/">> \o f
              /\ calls[k].op = "open_new_tab" =>
                    \E f \in Range(html_files) :
                        calls[k].arg = FileScheme \o cwd \o <<"/">> \o f

\* a relative argument with dots in it, resolved to /w/d, validated, listed
\* and launched from
C9_Witness ==
    /\ Done
    /\ Len(argv) > 1
    /\ ~isabs(argv[2])
    /\ cwd = D
    /\ Len(CallsOf("isdir")) = 1
    /\ ListingAnswered("ok")
    /\ Launches # <<>>

(* C10: launching is fire-and-forget.  A run that has reached the launcher  *)
(* stays in it until its loop is over, whatever the launch requests return, *)
(* and leads to the run having issued one request per kept name, printed    *)
(* that all N files were sent, and ended with status 0.                     *)
C10_FireAndForget ==
    /\ (pc = "launch") ~>
          /\ ExitedWith(0)
          /\ Len(Launches) = Len(html_files)
          /\ LastOut = Msg("All N files have been sent to the default browser.",
                           <<>>, Len(html_files))
    /\ [][pc = "launch" =>
            \/ pc' = "launch" /\ exit_status' = <<>> /\ html_files' = html_files
            \/ pc' = "done" /\ li > Len(html_files)]_vars

\* a run in which a launch request failed and which ended as every other
C10_Witness ==
    /\ ExitedWith(0)
    /\ \E k \in DOMAIN Launches : Launches[k].ret = "False"
    /\ \E k \in DOMAIN Launches : Launches[k].ret = "True"
    /\ LastOut.msg = "All N files have been sent to the default browser."

====
